---- MODULE Spec2Model ----
(***************************************************************************)
(* Model of the e-commerce simulation in src/file.py: the stock ledger     *)
(* (Inventory), the customer ledger (ECommerceApp._users / User._orders),  *)
(* the simulated payment gateway and the order workflow (Order).           *)
(*                                                                         *)
(* Python dicts that are iterated (Order._items) are sequences of          *)
(* <<key, value>> pairs in insertion order; dicts that are only looked up  *)
(* (Inventory._stock, Inventory._products, ECommerceApp._users) are        *)
(* functions whose DOMAIN is the key set.  Prices are whole currency units *)
(* so that the float arithmetic of calculate_total is exact.  An Order     *)
(* object is named by a reference, not by its order_id, which is a field.  *)
(*                                                                         *)
(* Spec drives the objects directly, SpecLedger the Inventory alone with   *)
(* every quantity, SpecApp the ECommerceApp methods alone, and SpecHistory *)
(* the histories, with User.place_order called directly as well.           *)
(***************************************************************************)
EXTENDS Integers, Sequences, FiniteSets, TLC

\* ---------------------------------------------------------------- inputs
ProductIds == {"P100", "P200"}
UserIds == {"U001", "U002"}
OrderIds == {"O1001", "O1002"}
Emails == {"alice@example.com"}
\* the Order objects: an object is not its order_id, two objects can carry
\* the same one
OrderRefs == {"order1", "order2"}
\* the order_id and the customer each object is constructed with when the
\* objects are driven directly
OrderIdOf == [o \in OrderRefs |-> IF o = "order1" THEN "O1001" ELSE "O1002"]
OrderUser == [o \in OrderRefs |-> IF o = "order1" THEN "U001" ELSE "U002"]
\* the name and the price a Product is constructed with: two of the names
\* used in the source, each with a small price in whole currency units
ProductDefs == {[name |-> "Laptop", price |-> 2], [name |-> "Smartphone", price |-> 3]}
\* the arguments add_product_to_catalog is called with for each product id
\* where a product id keeps one definition: one of ProductDefs each
CatalogDef == [p \in ProductIds |->
                 IF p = "P100" THEN [name |-> "Laptop", price |-> 2]
                 ELSE [name |-> "Smartphone", price |-> 3]]

\* ---------------------------------------------------------------- bounds
MaxNegQty == 1
MaxQty == 2
MaxStock == 6
MaxOrderStock == 2
MaxDebt == 1
MaxItemQty == 2
MaxHistory == 2

AllQuantities == -MaxNegQty..MaxQty
PositiveQuantities == 1..MaxQty

\* the quantities requested through place_order_for_user
RequestQuantities == 0..MaxQty

\* the items mappings handed to place_order_for_user: at most one entry per
\* product, in either order
ItemDicts ==
    {<<>>}
    \cup {<< <<p, q>> >> : p \in ProductIds, q \in RequestQuantities}
    \cup {<< <<x[1], x[2]>>, <<x[3], x[4]>> >> :
             x \in {y \in ProductIds \X RequestQuantities \X ProductIds \X RequestQuantities :
                       y[1] # y[3]}}

\* ------------------------------------------------------ program constants
LowStockThreshold == 5
PaymentOutcomes == {TRUE, FALSE}

VARIABLES
    stock,      \* Inventory._stock: product id -> quantity
    products,   \* Inventory._products: product id -> [name, price]
    users,      \* ECommerceApp._users: user id -> [email, orders]
    orders,     \* the Order objects: object -> [order_id, user, items, is_processed]
    last,       \* what the most recent call returned and emitted
    obs         \* per order: what its process_order calls have done so far

vars == <<stock, products, users, orders, last, obs>>

\* ------------------------------------------------------------ dict helpers
EmptyDict == [k \in {} |-> 0]

\* dict.get(k, default) on a lookup dict
Get(d, k, default) == IF k \in DOMAIN d THEN d[k] ELSE default

\* d[k] = v on a lookup dict
Put(d, k, v) == [x \in (DOMAIN d) \cup {k} |-> IF x = k THEN v ELSE d[x]]

\* the keys of an insertion-ordered dict
Keys(its) == {its[i][1] : i \in 1..Len(its)}

\* dict.get(k, default) on an insertion-ordered dict
ItemGet(its, k, default) ==
    IF \E i \in 1..Len(its) : its[i][1] = k
    THEN LET i == CHOOSE j \in 1..Len(its) : its[j][1] = k IN its[i][2]
    ELSE default

\* d[k] = v on an insertion-ordered dict: an existing key keeps its place
ItemPut(its, k, v) ==
    IF \E i \in 1..Len(its) : its[i][1] = k
    THEN [i \in 1..Len(its) |-> IF its[i][1] = k THEN <<k, v>> ELSE its[i]]
    ELSE Append(its, <<k, v>>)

\* -------------------------------------------------------------- Inventory
\* check_stock reporting one unit too many
check_stock_OffByOne(st, p) == Get(st, p, 0) + 1

\* check_stock
check_stock(st, p) == Get(st, p, 0)

\* the guard of remove_stock, off by one
Sufficient_OffByOne(st, p, q) == Get(st, p, 0) >= q - 1

\* the guard of remove_stock
Sufficient(st, p, q) == Get(st, p, 0) >= q

\* the low-stock test of remove_stock, with the threshold included
LowStock_Inclusive(n) == n <= LowStockThreshold

\* the low-stock test of remove_stock
LowStock(n) == n < LowStockThreshold

\* the decrement of remove_stock, lost
Decrement_Lost(st, p, q) == st

\* the decrement of remove_stock
Decrement(st, p, q) == [st EXCEPT ![p] = @ - q]

\* remove_stock as a function of the ledger: the value returned (or the
\* exception raised), the ledger afterwards and the alerts sent
remove_stock_result(st, prods, p, q) ==
    IF Sufficient(st, p, q)
    THEN IF p \notin DOMAIN st
         THEN [ret |-> "KeyError", stock |-> st, alerts |-> <<>>]
         ELSE LET st2 == Decrement(st, p, q) IN
              IF p \notin DOMAIN prods
              THEN [ret |-> "KeyError", stock |-> st2, alerts |-> <<>>]
              ELSE [ret |-> "True", stock |-> st2,
                    alerts |-> IF LowStock(st2[p])
                               THEN << <<prods[p].name, st2[p]>> >>
                               ELSE <<>>]
    ELSE [ret |-> "False", stock |-> st, alerts |-> <<>>]

\* ------------------------------------------------------------------ Order
\* add_item without the availability check
AddItemRejects_NoStockCheck(st, p, q) == q <= 0

\* the two rejections of add_item
AddItemRejects(st, p, q) == q <= 0 \/ check_stock(st, p) < q

\* add_item overwriting the requested quantity instead of adding to it
Accumulate_Overwrites(its, p, q) == ItemPut(its, p, q)

\* the accumulation of add_item
Accumulate(its, p, q) == ItemPut(its, p, ItemGet(its, p, 0) + q)

\* add_item as a function of the item mapping
add_item_result(its, st, p, q) ==
    IF AddItemRejects(st, p, q) THEN its ELSE Accumulate(its, p, q)

\* the body of the loop of calculate_total, without the quantity
LineTotal_IgnoresQty(price, qty) == price

\* the body of the loop of calculate_total
LineTotal(price, qty) == price * qty

\* calculate_total: the loop over the items from position i on
RECURSIVE calculate_total_from(_, _, _, _)
calculate_total_from(its, prods, i, total) ==
    IF i > Len(its) THEN [raised |-> FALSE, total |-> total]
    ELSE IF its[i][1] \notin DOMAIN prods THEN [raised |-> TRUE, total |-> total]
    ELSE calculate_total_from(its, prods, i + 1,
                              total + LineTotal(prods[its[i][1]].price, its[i][2]))

\* calculate_total with the total not starting at zero
calculate_total_StartsAtOne(its, prods) == calculate_total_from(its, prods, 1, 1)

\* calculate_total
calculate_total(its, prods) == calculate_total_from(its, prods, 1, 0)

\* the reservation loop of process_order going on after a failed reservation
RECURSIVE reserve_from_IgnoresFailure(_, _, _, _, _)
reserve_from_IgnoresFailure(st, prods, its, i, alerts) ==
    IF i > Len(its)
    THEN [status |-> "ok", stock |-> st, alerts |-> alerts, reserved |-> i - 1]
    ELSE LET r == remove_stock_result(st, prods, its[i][1], its[i][2]) IN
         reserve_from_IgnoresFailure(r.stock, prods, its, i + 1, alerts \o r.alerts)

\* the reservation loop of process_order from position i on
RECURSIVE reserve_from(_, _, _, _, _)
reserve_from(st, prods, its, i, alerts) ==
    IF i > Len(its)
    THEN [status |-> "ok", stock |-> st, alerts |-> alerts, reserved |-> i - 1]
    ELSE LET r == remove_stock_result(st, prods, its[i][1], its[i][2]) IN
         IF r.ret = "True"
         THEN reserve_from(r.stock, prods, its, i + 1, alerts \o r.alerts)
         ELSE [status |-> IF r.ret = "False" THEN "stock_failed" ELSE "KeyError",
               stock |-> r.stock, alerts |-> alerts \o r.alerts, reserved |-> i - 1]

\* the re-entry guard of process_order, never taken
AlreadyProcessed_Never(ord) == FALSE

\* the re-entry guard of process_order
AlreadyProcessed(ord) == ord.is_processed

\* User.place_order
place_order(hist, o) == Append(hist, o)

\* ------------------------------------------------------------------- Init
NoCall == [op |-> "none", order |-> "none", ret |-> "None", outcome |-> "none",
           paid |-> FALSE, amount |-> 0, alerts |-> <<>>, confirmed |-> <<>>,
           reserved |-> 0, events |-> <<>>, user |-> "none", items |-> <<>>]

NoObs == [returned |-> FALSE, trues |-> 0, charges |-> 0, confirms |-> 0]

Init ==
    /\ stock = EmptyDict
    /\ products = EmptyDict
    /\ users = EmptyDict
    /\ orders = EmptyDict
    /\ last = NoCall
    /\ obs = [o \in OrderRefs |-> NoObs]

\* ---------------------------------------------------------------- actions
InRange(n, cap) == n >= -MaxDebt /\ n <= cap

\* ECommerceApp.register_user
register_user(u, e) ==
    /\ users' = IF u \in DOMAIN users THEN users
                ELSE Put(users, u, [email |-> e, orders |-> <<>>])
    /\ last' = NoCall
    /\ UNCHANGED <<stock, products, orders, obs>>

\* Inventory.add_product (ECommerceApp.add_product_to_catalog)
add_product(p, def, q, cap) ==
    /\ InRange(Get(stock, p, 0) + q, cap)
    /\ products' = Put(products, p, def)
    /\ stock' = Put(stock, p, Get(stock, p, 0) + q)
    /\ last' = NoCall
    /\ UNCHANGED <<users, orders, obs>>

\* Inventory.remove_stock called directly
remove_stock(p, q, cap) ==
    LET r == remove_stock_result(stock, products, p, q) IN
    /\ InRange(Get(r.stock, p, 0), cap)
    /\ stock' = r.stock
    /\ last' = [NoCall EXCEPT !.op = "remove_stock", !.ret = r.ret, !.alerts = r.alerts]
    /\ UNCHANGED <<products, users, orders, obs>>

\* Inventory.restock without the test for a known product
restock_CreatesEntry(p, q, cap) ==
    /\ InRange(Get(stock, p, 0) + q, cap)
    /\ stock' = Put(stock, p, Get(stock, p, 0) + q)
    /\ last' = [NoCall EXCEPT !.op = "restock"]
    /\ UNCHANGED <<products, users, orders, obs>>

\* Inventory.restock (ECommerceApp.restock_product)
restock(p, q, cap) ==
    /\ InRange(Get(stock, p, 0) + q, cap)
    /\ stock' = IF p \in DOMAIN products
                THEN Put(stock, p, Get(stock, p, 0) + q)
                ELSE stock
    /\ last' = [NoCall EXCEPT !.op = "restock"]
    /\ UNCHANGED <<products, users, orders, obs>>

\* Order.__init__, for a registered user as in place_order_for_user
NewOrder(o) ==
    /\ o \notin DOMAIN orders
    /\ OrderUser[o] \in DOMAIN users
    /\ orders' = Put(orders, o, [order_id |-> OrderIdOf[o], user |-> OrderUser[o],
                                 items |-> <<>>, is_processed |-> FALSE])
    /\ last' = NoCall
    /\ UNCHANGED <<stock, products, users, obs>>

\* Order.add_item reserving the stock it has just checked
add_item_Reserving(o, p, q) ==
    /\ o \in DOMAIN orders
    /\ ItemGet(orders[o].items, p, 0) + q <= MaxItemQty
    /\ UNCHANGED <<products, users, obs>>
    /\ last' = NoCall
    /\ orders' = [orders EXCEPT ![o].items = add_item_result(@, stock, p, q)]
    /\ stock' = IF AddItemRejects(stock, p, q) THEN stock ELSE Decrement(stock, p, q)

\* Order.add_item
add_item(o, p, q) ==
    /\ o \in DOMAIN orders
    /\ ItemGet(orders[o].items, p, 0) + q <= MaxItemQty
    /\ UNCHANGED <<stock, products, users, obs>>
    /\ last' = NoCall
    /\ orders' = [orders EXCEPT ![o].items = add_item_result(@, stock, p, q)]

\* the commit steps with the history written before the confirmation is sent
CommitSteps_AppendFirst == <<"mark_processed", "place_order", "send_order_confirmation">>

\* the calls process_order makes, in order, once the payment has succeeded:
\* the flag is set, the confirmation sent, the order appended to the history
CommitSteps == <<"mark_processed", "send_order_confirmation", "place_order">>

\* n calls of remove_stock in a row
RemoveStockCalls(n) == [i \in 1..n |-> "remove_stock"]

\* Order.process_order as a function of the order and of what it reads: the
\* order, the ledger and the customers afterwards, and what the call returned
\* and emitted (events: the calls it made on its collaborators, in order)
process_order_result(o, ord, st, usrs, prods, success) ==
    LET base == [NoCall EXCEPT !.op = "process_order", !.order = o]
        same == [ord |-> ord, stock |-> st, users |-> usrs, last |-> base]
    IN
    IF AlreadyProcessed(ord)
    THEN [same EXCEPT !.last = [base EXCEPT !.ret = "False",
                                            !.outcome = "already_processed"]]
    ELSE
    LET rs == reserve_from(st, prods, ord.items, 1, <<>>)
        attempted == IF rs.status = "ok" THEN rs.reserved ELSE rs.reserved + 1
        afterReserve == [base EXCEPT !.alerts = rs.alerts, !.reserved = rs.reserved,
                                     !.events = RemoveStockCalls(attempted)]
        reservedState == [same EXCEPT !.stock = rs.stock]
    IN
    IF rs.status = "KeyError"
    THEN [reservedState EXCEPT !.last = [afterReserve EXCEPT !.ret = "KeyError",
                                                             !.outcome = "raised"]]
    ELSE IF rs.status = "stock_failed"
    THEN [reservedState EXCEPT !.last = [afterReserve EXCEPT !.ret = "False",
                                                             !.outcome = "stock_failed"]]
    ELSE
    LET tot == calculate_total(ord.items, prods) IN
    IF tot.raised
    THEN [reservedState EXCEPT !.last = [afterReserve EXCEPT !.ret = "KeyError",
                                                             !.outcome = "raised"]]
    ELSE
    LET charged == [afterReserve EXCEPT !.paid = TRUE, !.amount = tot.total,
                                        !.events = @ \o <<"process_payment">>]
    IN
    IF ~success
    THEN [reservedState EXCEPT !.last = [charged EXCEPT !.ret = "False",
                                                        !.outcome = "payment_failed"]]
    ELSE [ord |-> [ord EXCEPT !.is_processed = TRUE],
          stock |-> rs.stock,
          users |-> [usrs EXCEPT ![ord.user].orders = place_order(@, o)],
          last |-> [charged EXCEPT !.ret = "True", !.outcome = "committed",
                                   !.confirmed = <<usrs[ord.user].email, ord.order_id>>,
                                   !.events = @ \o CommitSteps]]

\* what a process_order call adds to the observations of its order
Observe(ob, lst) ==
    [returned |-> ob.returned \/ lst.ret \in {"True", "False"},
     trues |-> ob.trues + (IF lst.ret = "True" THEN 1 ELSE 0),
     charges |-> ob.charges + (IF lst.outcome = "committed" THEN 1 ELSE 0),
     confirms |-> ob.confirms + (IF lst.confirmed # <<>> THEN 1 ELSE 0)]

\* Order.process_order
process_order(o) ==
    /\ o \in DOMAIN orders
    /\ \E success \in PaymentOutcomes :
          LET r == process_order_result(o, orders[o], stock, users, products, success) IN
          /\ stock' = r.stock
          /\ orders' = [orders EXCEPT ![o] = r.ord]
          /\ users' = r.users
          /\ last' = r.last
          /\ obs' = [obs EXCEPT ![o] = Observe(@, r.last)]
          /\ UNCHANGED products

\* the loop of place_order_for_user over the requested items, from position i on
RECURSIVE add_items_from(_, _, _, _)
add_items_from(its, st, req, i) ==
    IF i > Len(req) THEN its
    ELSE add_items_from(add_item_result(its, st, req[i][1], req[i][2]), st, req, i + 1)

\* place_order_for_user for a user id that is not registered (lines 265-267)
place_order_unknown_user(u) ==
    /\ last' = [NoCall EXCEPT !.op = "place_order_for_user", !.user = u,
                              !.outcome = "user_not_found"]
    /\ UNCHANGED <<stock, products, users, orders, obs>>

\* place_order_for_user for a registered user (lines 268-274): a new Order
\* object is constructed with the order id given, whether or not an earlier
\* order carries that id; it is local to the call and outlives it only
\* through the history it is appended to on commit.  The value of
\* process_order is logged, the call itself returns None.
place_order_known_user(u, id, req) ==
    /\ OrderRefs \ DOMAIN orders # {}
    /\ \E success \in PaymentOutcomes :
          LET o == CHOOSE x \in OrderRefs \ DOMAIN orders : TRUE
              fresh == [order_id |-> id, user |-> u, items |-> <<>>,
                        is_processed |-> FALSE]
              filled == [fresh EXCEPT !.items = add_items_from(<<>>, stock, req, 1)]
              r == process_order_result(o, filled, stock, users, products, success)
          IN /\ stock' = r.stock
             /\ users' = r.users
             /\ last' = [r.last EXCEPT !.op = "place_order_for_user", !.ret = "None",
                                       !.user = u, !.items = filled.items]
             /\ orders' = IF r.ord.is_processed THEN Put(orders, o, r.ord) ELSE orders
             /\ obs' = IF r.ord.is_processed
                       THEN [obs EXCEPT ![o] = Observe(@, r.last)]
                       ELSE obs
             /\ UNCHANGED products

\* place_order_for_user reserving the items before it looks the user up
place_order_for_user_ChecksLate(u, id, req) ==
    IF u \notin DOMAIN users
    THEN /\ last' = [NoCall EXCEPT !.op = "place_order_for_user", !.user = u,
                                   !.outcome = "user_not_found"]
         /\ stock' = reserve_from(stock, products,
                                  add_items_from(<<>>, stock, req, 1), 1, <<>>).stock
         /\ UNCHANGED <<products, users, orders, obs>>
    ELSE place_order_known_user(u, id, req)

\* ECommerceApp.place_order_for_user
place_order_for_user(u, id, req) ==
    IF u \notin DOMAIN users
    THEN place_order_unknown_user(u)
    ELSE place_order_known_user(u, id, req)

\* User.place_order called directly, with any order and on any customer
User_place_order(u, o) ==
    /\ u \in DOMAIN users
    /\ o \in DOMAIN orders
    /\ Len(users[u].orders) < MaxHistory
    /\ users' = [users EXCEPT ![u].orders = place_order(@, o)]
    /\ last' = [NoCall EXCEPT !.op = "place_order", !.order = o, !.user = u]
    /\ UNCHANGED <<stock, products, orders, obs>>

\* ------------------------------------------------------- specifications
\* The whole application, the ledger driven with positive quantities.
Next ==
    \/ \E u \in UserIds, e \in Emails : register_user(u, e)
    \/ \E p \in ProductIds, def \in ProductDefs, q \in PositiveQuantities :
           add_product(p, def, q, MaxOrderStock)
    \/ \E p \in ProductIds, q \in PositiveQuantities : remove_stock(p, q, MaxOrderStock)
    \/ \E p \in ProductIds, q \in PositiveQuantities : restock(p, q, MaxOrderStock)
    \/ \E o \in OrderRefs : NewOrder(o)
    \/ \E o \in OrderRefs, p \in ProductIds, q \in AllQuantities : add_item(o, p, q)
    \/ \E o \in OrderRefs : process_order(o)

Spec == Init /\ [][Next]_vars

\* The application driven through ECommerceApp only, with positive ledger
\* quantities, one definition per product id and every requested quantity
\* (a product id registered again with another definition is a step of Spec
\* and of SpecLedger, through the same add_product).
NextApp ==
    \/ \E u \in UserIds, e \in Emails : register_user(u, e)
    \/ \E p \in ProductIds, q \in PositiveQuantities :
           add_product(p, CatalogDef[p], q, MaxOrderStock)
    \/ \E p \in ProductIds, q \in PositiveQuantities : restock(p, q, MaxOrderStock)
    \/ \E u \in UserIds, id \in OrderIds, req \in ItemDicts :
           place_order_for_user(u, id, req)

SpecApp == Init /\ [][NextApp]_vars

\* The stock ledger alone, driven with every quantity.
NextLedger ==
    \/ \E p \in ProductIds, q \in AllQuantities : remove_stock(p, q, MaxStock)
    \/ \E p \in ProductIds, def \in ProductDefs, q \in AllQuantities :
           add_product(p, def, q, MaxStock)
    \/ \E p \in ProductIds, q \in AllQuantities : restock(p, q, MaxStock)

SpecLedger == Init /\ [][NextLedger]_vars

\* The customers' histories, written by process_order and by direct calls of
\* User.place_order.
NextHistory ==
    \/ \E u \in UserIds, e \in Emails : register_user(u, e)
    \/ \E o \in OrderRefs : NewOrder(o)
    \/ \E o \in OrderRefs : process_order(o)
    \/ \E u \in UserIds, o \in OrderRefs : User_place_order(u, o)

SpecHistory == Init /\ [][NextHistory]_vars

\* ----------------------------------------------------------------- claims
\* how often x occurs in a sequence
Occurrences(seq, x) == Cardinality({i \in 1..Len(seq) : seq[i] = x})

\* the sum over a set of product ids of price times requested quantity
RECURSIVE SumOverProducts(_, _, _)
SumOverProducts(S, its, prods) ==
    IF S = {} THEN 0
    ELSE LET p == CHOOSE x \in S : TRUE IN
         prods[p].price * ItemGet(its, p, 0) + SumOverProducts(S \ {p}, its, prods)

\* C1: with positive quantities in every ledger call, the stock count of
\* every product is >= 0 in every reachable state.
StockNeverNegative == \A p \in DOMAIN stock : stock[p] >= 0

\* a reservation has taken a product's stock down to exactly zero
StockDrainedToZero ==
    /\ last.op = "remove_stock"
    /\ last.ret = "True"
    /\ \E p \in DOMAIN stock : stock[p] = 0

\* C2: once a process_order call on an order has returned, every later call
\* on that order returns False with the "already processed" signal and has no
\* side effect: no stock change, no payment call, no notification, no
\* history change.
ProcessIdempotentAfterReturn ==
    [][\A o \in DOMAIN orders :
          (obs[o].returned /\ last'.op = "process_order" /\ last'.order = o)
          => /\ last'.ret = "False"
             /\ last'.outcome = "already_processed"
             /\ ~last'.paid
             /\ last'.alerts = <<>>
             /\ last'.confirmed = <<>>
             /\ stock' = stock
             /\ users' = users]_vars

\* C3: in every reachable state an order is in its customer's history if and
\* only if a process_order call on it returned True, and it is in no other
\* customer's history.
HistoryIffCommitted ==
    \A o \in OrderRefs, u \in DOMAIN users :
        (Occurrences(users[u].orders, o) > 0)
        <=> (o \in DOMAIN orders /\ orders[o].user = u /\ obs[o].trues > 0)

\* C4: the processed flag never returns to false, and a committed order has
\* returned True exactly once, is exactly once in its customer's history and
\* was charged successfully exactly once, whatever calls follow.
ProcessedExactlyOnce ==
    [][\A o \in DOMAIN orders :
          /\ orders[o].is_processed => orders'[o].is_processed
          /\ orders'[o].is_processed =>
                /\ obs'[o].trues = 1
                /\ obs'[o].charges = 1
                /\ Occurrences(users'[orders'[o].user].orders, o) = 1]_vars

\* process_order was called again on a committed order
CommittedOrderCalledAgain ==
    /\ last.op = "process_order"
    /\ last.outcome = "already_processed"
    /\ orders[last.order].is_processed
    /\ obs[last.order].trues = 1

\* C5: the amount passed to the payment processor is the sum over the
\* order's line items of the current catalog price times the requested
\* quantity; an order without items is charged 0.
ChargedAmountIsTotal ==
    (last.op = "process_order" /\ last.paid)
    => LET its == orders[last.order].items IN
       last.amount = SumOverProducts(Keys(its), its, products)

\* a payment was requested for an order with two line items, one of them
\* with an accumulated quantity above one
TwoLineOrderCharged ==
    /\ last.op = "process_order"
    /\ last.paid
    /\ Len(orders[last.order].items) = 2
    /\ \E i \in 1..2 : orders[last.order].items[i][2] > 1

\* C6: a successful remove_stock whose resulting stock is below 5 emits
\* exactly one low-stock alert, for that product and carrying the resulting
\* stock; a failed one, or one leaving 5 or more, emits none.
LowStockAlertContract ==
    [][\A p \in ProductIds, q \in AllQuantities :
          remove_stock(p, q, MaxStock)
          => IF last'.ret = "True" /\ stock'[p] < 5
             THEN last'.alerts = << <<products[p].name, stock'[p]>> >>
             ELSE last'.alerts = <<>>]_vars

\* a reservation crossed the threshold: it left 4 units and sent one alert
AlertAtFourUnits ==
    /\ last.op = "remove_stock"
    /\ last.ret = "True"
    /\ Len(last.alerts) = 1
    /\ last.alerts[1][2] = 4

\* C7: for every product id and every quantity, remove_stock returns True
\* and lowers that product's stock by the quantity iff the stock is at least
\* the quantity; otherwise it returns False, without raising, and leaves the
\* ledger unchanged; other products are never touched.
RemoveStockContract ==
    [][\A p \in ProductIds, q \in AllQuantities :
          remove_stock(p, q, MaxStock)
          => IF Get(stock, p, 0) >= q
             THEN /\ last'.ret = "True"
                  /\ p \in DOMAIN stock
                  /\ stock' = [x \in DOMAIN stock |->
                                  IF x = p THEN stock[x] - q ELSE stock[x]]
             ELSE /\ last'.ret = "False"
                  /\ stock' = stock]_vars

\* C8: add_item leaves the item mapping unchanged when the quantity is not
\* positive or exceeds the product's stock (0 for an unknown product), and
\* otherwise adds the quantity to the one already requested; every stored
\* quantity is positive.  (add_item steps are among those that leave the
\* ledger, the customers and the last call result's fields alone.)
AddItemContract ==
    [][/\ (last' = NoCall /\ UNCHANGED <<stock, products, users, obs>>)
          => \A o \in OrderRefs, p \in ProductIds, q \in AllQuantities :
                add_item(o, p, q)
                => LET before == orders[o].items
                       after == orders'[o].items
                   IN IF q <= 0 \/ q > Get(stock, p, 0)
                      THEN after = before
                      ELSE /\ Keys(after) = Keys(before) \cup {p}
                           /\ \A x \in ProductIds :
                                 ItemGet(after, x, 0)
                                 = ItemGet(before, x, 0) + (IF x = p THEN q ELSE 0)
       /\ \A o \in DOMAIN orders' : \A i \in 1..Len(orders'[o].items) :
             orders'[o].items[i][2] > 0]_vars

\* an order holds two line items, one with the largest accumulated quantity
ItemsAccepted ==
    \E o \in DOMAIN orders :
        /\ Len(orders[o].items) = 2
        /\ \E i \in 1..2 : orders[o].items[i][2] = MaxItemQty

\* C9: a failing process_order rolls nothing back.  Declined payment: False
\* is returned, every line item's stock stays lowered by its quantity, the
\* flag stays false and no history changes.  Failed reservation of a later
\* item: the items before it stay lowered and no payment is requested.
NoRollback ==
    [][(last'.op = "process_order" /\ last'.order \in DOMAIN orders)
       => LET o == last'.order
              its == orders[o].items
              n == last'.reserved
          IN /\ last'.outcome = "payment_failed"
                => /\ last'.ret = "False"
                   /\ n = Len(its)
                   /\ \A p \in ProductIds :
                         Get(stock', p, 0) = Get(stock, p, 0) - ItemGet(its, p, 0)
                   /\ ~orders'[o].is_processed
                   /\ users' = users
             /\ last'.outcome = "stock_failed"
                => /\ last'.ret = "False"
                   /\ ~last'.paid
                   /\ n < Len(its)
                   /\ Get(stock', its[n + 1][1], 0) < its[n + 1][2]
                   /\ \A p \in ProductIds :
                         Get(stock', p, 0)
                         = Get(stock, p, 0)
                           - (IF \E j \in 1..n : its[j][1] = p
                              THEN ItemGet(its, p, 0) ELSE 0)
                   /\ ~orders'[o].is_processed
                   /\ users' = users]_vars

\* the second line item could not be reserved after the first one was
PartialReservationKept ==
    /\ last.op = "process_order"
    /\ last.outcome = "stock_failed"
    /\ last.reserved = 1
    /\ ~last.paid

\* C10: add_product and restock with a non-positive quantity change neither
\* the stock ledger nor the catalog.
NonPositiveQuantityIsNoOp ==
    [][\A p \in ProductIds, q \in AllQuantities :
          q <= 0
          => /\ \A def \in ProductDefs :
                   add_product(p, def, q, MaxStock)
                   => (stock' = stock /\ products' = products)
             /\ restock(p, q, MaxStock)
                => (stock' = stock /\ products' = products)]_vars

\* C11: once process_order has returned on an order, no later add_item call
\* changes the order's item mapping.
TerminalAfterProcess ==
    [][\A o \in DOMAIN orders :
          obs[o].returned => orders'[o].items = orders[o].items]_vars

\* C12 as stated: process_order on an unprocessed order without items
\* attempts no reservation, changes no stock count, returns True and commits.
EmptyOrderAlwaysCommits ==
    [][\A o \in DOMAIN orders :
          (last'.op = "process_order" /\ last'.order = o
           /\ orders[o].items = <<>> /\ ~orders[o].is_processed)
          => /\ last'.reserved = 0
             /\ \A i \in 1..Len(last'.events) : last'.events[i] # "remove_stock"
             /\ stock' = stock
             /\ last'.ret = "True"
             /\ orders'[o].is_processed]_vars

\* C12 as amended: process_order on an unprocessed order without items
\* attempts no reservation and changes no stock count, requests a payment of
\* 0, and returns True and commits exactly when that payment succeeds.
EmptyOrderCommitsIffPaid ==
    [][\A o \in DOMAIN orders :
          (last'.op = "process_order" /\ last'.order = o
           /\ orders[o].items = <<>> /\ ~orders[o].is_processed)
          => /\ last'.reserved = 0
             /\ \A i \in 1..Len(last'.events) : last'.events[i] # "remove_stock"
             /\ stock' = stock
             /\ last'.paid
             /\ last'.amount = 0
             /\ last'.outcome \in {"committed", "payment_failed"}
             /\ last'.ret = (IF last'.outcome = "committed" THEN "True" ELSE "False")
             /\ orders'[o].is_processed = (last'.outcome = "committed")]_vars

\* an order without items, with stock in the ledger, had its payment of 0
\* declined
EmptyOrderDeclined ==
    /\ last.op = "process_order"
    /\ last.outcome = "payment_failed"
    /\ last.amount = 0
    /\ last.order \in DOMAIN orders
    /\ orders[last.order].items = <<>>
    /\ \E p \in DOMAIN stock : stock[p] > 0

\* C13: add_item never changes the stock ledger; a stock count is lowered
\* only by remove_stock, called directly or during process_order.  (The
\* witness shows what follows: an accepted line can still fail to reserve.)
AddItemIsPreCheckOnly ==
    [][/\ (\E o \in DOMAIN orders : orders'[o].items # orders[o].items)
          => (stock' = stock /\ products' = products)
       /\ (\E p \in DOMAIN stock : stock'[p] < stock[p])
          => last'.op \in {"process_order", "remove_stock"}]_vars

\* while another order was committed, the stock an accepted line had been
\* checked against went away: its reservation failed
PreCheckedLineFailsToReserve ==
    /\ last.op = "process_order"
    /\ last.outcome = "stock_failed"
    /\ LET its == orders[last.order].items
           k == last.reserved + 1
       IN its[k][2] > Get(stock, its[k][1], 0)
    /\ \E o \in DOMAIN orders : o # last.order /\ obs[o].trues = 1

\* C14: place_order_for_user with an unregistered customer id changes
\* nothing: no order is constructed or processed, no stock count changes, no
\* payment is requested, no notification sent, no history changed.
UnknownCustomerChangesNothing ==
    [][(last'.op = "place_order_for_user" /\ last'.user \notin DOMAIN users)
       => /\ orders' = orders
          /\ obs' = obs
          /\ stock' = stock
          /\ products' = products
          /\ users' = users
          /\ ~last'.paid
          /\ last'.events = <<>>
          /\ last'.alerts = <<>>
          /\ last'.confirmed = <<>>]_vars

\* an order was refused for an unknown customer although stock was there
UnknownCustomerRefused ==
    /\ last.op = "place_order_for_user"
    /\ last.user \notin DOMAIN users
    /\ \E p \in DOMAIN stock : stock[p] > 0

\* C15: restock of a product id that is not in the catalog leaves ledger and
\* catalog unchanged and creates no stock entry; restock of a known product
\* with a positive quantity raises that product's stock by the quantity and
\* nothing else.
RestockContract ==
    [][\A p \in ProductIds, q \in AllQuantities :
          restock(p, q, MaxStock)
          => IF p \notin DOMAIN products
             THEN /\ stock' = stock
                  /\ products' = products
                  /\ p \notin DOMAIN stock'
             ELSE q > 0
                  => /\ p \in DOMAIN stock
                     /\ stock' = [x \in DOMAIN stock |->
                                     IF x = p THEN stock[x] + q ELSE stock[x]]
                     /\ products' = products]_vars

\* a restock call has returned with a known product above any single delivery
RestockedAboveOneDelivery ==
    /\ last.op = "restock"
    /\ \E p \in DOMAIN products : stock[p] > MaxQty

\* where x occurs in a sequence
Positions(seq, x) == {i \in 1..Len(seq) : seq[i] = x}

\* C16: process_order returns a boolean and never raises: every product id
\* with a stock entry and every product id in an order's item mapping has a
\* product definition in the catalog.
CatalogLookupsNeverMiss ==
    /\ DOMAIN stock \subseteq DOMAIN products
    /\ \A o \in DOMAIN orders : Keys(orders[o].items) \subseteq DOMAIN products
    /\ last.op = "process_order" => last.ret \in {"True", "False"}

\* process_order returned False for a two-line order whose first line could
\* not be reserved
TwoLineOrderRefused ==
    /\ last.op = "process_order"
    /\ last.ret = "False"
    /\ last.outcome = "stock_failed"
    /\ last.reserved = 0
    /\ Len(orders[last.order].items) = 2

\* C17: once a product id is in the catalog its name and unit price are the
\* same in every later state, whatever is called.
ProductImmutable ==
    [][\A p \in DOMAIN products :
          p \in DOMAIN products' /\ products'[p] = products[p]]_vars

\* C18: a process_order call requests at most one payment, and only after
\* remove_stock succeeded for every line item; none if a reservation failed
\* or the order was already processed.
PaymentOnlyAfterAllReserved ==
    [][(last'.op = "process_order" /\ last'.order \in DOMAIN orders)
       => LET ord == orders[last'.order]
              ev == last'.events
              pays == Positions(ev, "process_payment")
          IN /\ Cardinality(pays) <= 1
             /\ last'.paid = (pays # {})
             /\ \A i \in pays :
                   /\ i = Len(ord.items) + 1
                   /\ \A j \in 1..(i - 1) : ev[j] = "remove_stock"
                   /\ last'.reserved = Len(ord.items)
                   /\ \A p \in ProductIds :
                         Get(stock', p, 0) = Get(stock, p, 0) - ItemGet(ord.items, p, 0)
             /\ last'.outcome \in {"stock_failed", "already_processed"} => pays = {}
             /\ ord.is_processed => pays = {}
             /\ last'.reserved < Len(ord.items) => pays = {}]_vars

\* a payment was requested, and declined, right after two reservations
PaymentAfterTwoReservations ==
    /\ last.op = "process_order"
    /\ last.outcome = "payment_failed"
    /\ last.events = <<"remove_stock", "remove_stock", "process_payment">>

\* C19: the confirmation for an order is sent exactly once, by the
\* process_order call that commits it, after the payment succeeded and the
\* flag was set and before the order is appended to the history; never for
\* an order whose calls all failed.
ConfirmationOncePerCommit ==
    /\ \A o \in OrderRefs : obs[o].confirms = obs[o].trues /\ obs[o].confirms <= 1
    /\ last.op = "process_order"
       => /\ (last.confirmed # <<>>) = (last.ret = "True")
          /\ last.confirmed # <<>>
             => /\ last.confirmed = <<users[orders[last.order].user].email,
                                       orders[last.order].order_id>>
                /\ \E a, b, c, d \in 1..Len(last.events) :
                      /\ Positions(last.events, "process_payment") = {a}
                      /\ Positions(last.events, "mark_processed") = {b}
                      /\ Positions(last.events, "send_order_confirmation") = {c}
                      /\ Positions(last.events, "place_order") = {d}
                      /\ a < b /\ b < c /\ c < d

\* a commit has just sent its confirmation to the customer's address
ConfirmationSent ==
    /\ last.op = "process_order"
    /\ last.outcome = "committed"
    /\ last.confirmed = <<"alice@example.com", orders[last.order].order_id>>
    /\ obs[last.order].confirms = 1

\* C20: an order placed through place_order_for_user by a registered
\* customer never fails at reservation: every line the pre-check accepted is
\* reserved, the stock of each such product drops by the requested quantity
\* whatever the payment does, and the order commits iff the payment succeeds.
PlacedOrderReservesAll ==
    [][(last'.op = "place_order_for_user" /\ last'.user \in DOMAIN users)
       => LET o == last'.order
              its == last'.items
          IN /\ last'.outcome \in {"committed", "payment_failed"}
             /\ last'.paid
             /\ last'.reserved = Len(its)
             /\ \A i \in 1..Len(its) :
                   its[i][2] > 0 /\ its[i][2] <= Get(stock, its[i][1], 0)
             /\ \A p \in ProductIds :
                   Get(stock', p, 0) = Get(stock, p, 0) - ItemGet(its, p, 0)
             /\ (last'.outcome = "committed")
                = (/\ o \in DOMAIN orders'
                   /\ orders'[o].is_processed
                   /\ orders'[o].items = its
                   /\ Occurrences(users'[last'.user].orders, o) = 1)
             /\ last'.outcome = "payment_failed"
                => (orders' = orders /\ users' = users)]_vars

\* a two-line order placed through the application was fully reserved and
\* then declined by the payment processor
PlacedOrderReservedThenDeclined ==
    /\ last.op = "place_order_for_user"
    /\ last.outcome = "payment_failed"
    /\ Len(last.items) = 2
    /\ last.reserved = 2

====
